---------------------------- MODULE Spec2Model ----------------------------
(***************************************************************************)
(* contactcard.py: a one-file Flask application that lists and edits the   *)
(* rows of salesforce.contact.  The model follows a request through        *)
(* force_https, salesforce_connection_exists, heroku_connect_required and  *)
(* the three views, one action per access to shared state (the             *)
(* HEROKU_CONNECT_INITED flag, the schema catalog, the contact table).     *)
(*                                                                         *)
(* Text is a sequence of tokens: a token is one character, except that the *)
(* literals the code itself looks for ("http", "://", "herokuapp", "com",  *)
(* path segments) are single tokens.                                       *)
(***************************************************************************)
EXTENDS Integers, Sequences, FiniteSets, TLC

VARIABLES
    schema,         \* the 'salesforce' schema is in information_schema.schemata
    inited,         \* app.config['HEROKU_CONNECT_INITED']
    table,          \* salesforce.contact: id -> row
    pc,             \* per worker thread: where its request stands
    req,            \* per worker: the request it serves
    schema_exists,  \* per worker: the local of salesforce_connection_exists
    ready,          \* per worker: what salesforce_connection_exists returned
    contact,        \* per worker: the ContactModel object the view loaded
    sent,           \* the response this step sends, with the messages flashed
    nq,             \* history: catalog queries the worker's request issued
    ready0,         \* history: the schema existed when the request arrived
    hits            \* history: catalog queries that found the schema

vars == <<schema, inited, table, pc, req, schema_exists, ready, contact,
          sent, nq, ready0, hits>>

(***************************************************************************)
(* Bounds of the model.                                                    *)
(***************************************************************************)
\* worker threads of the edit-pipeline specification (Spec)
EditWorkers == 1
\* worker threads of the readiness-gate specification (GateSpec)
GateWorkers == 2
\* worker threads racing through the readiness check (RaceSpec)
RaceWorkers == 3

(***************************************************************************)
(* Text helpers.                                                           *)
(***************************************************************************)
SetMax(S) == CHOOSE x \in S : \A y \in S : y <= x
SetMin(S) == CHOOSE x \in S : \A y \in S : x <= y

\* str.startswith
StartsWith(s, p) == Len(s) >= Len(p) /\ SubSeq(s, 1, Len(p)) = p

\* positions where p occurs in s
Occurrences(s, p) ==
    {i \in 1..(Len(s) - Len(p) + 1) : SubSeq(s, i, i + Len(p) - 1) = p}

\* str.replace(old, new, 1): the first occurrence only
ReplaceFirst(s, old, new) ==
    IF Occurrences(s, old) = {} THEN s
    ELSE LET i == SetMin(Occurrences(s, old))
         IN  SubSeq(s, 1, i - 1) \o new \o SubSeq(s, i + Len(old), Len(s))

\* str.strip(): leading and trailing whitespace removed
Strip(s) ==
    LET ink == {i \in 1..Len(s) : s[i] # " "}
    IN  IF ink = {} THEN <<>> ELSE SubSeq(s, SetMin(ink), SetMax(ink))

\* s.split(sep): the pieces between the separators
RECURSIVE Split(_, _)
Split(s, sep) ==
    LET at == {i \in 1..Len(s) : s[i] = sep}
    IN  IF at = {} THEN <<s>>
        ELSE LET i == SetMin(at)
             IN  <<SubSeq(s, 1, i - 1)>> \o Split(SubSeq(s, i + 1, Len(s)), sep)

(***************************************************************************)
(* URLs and routing.                                                       *)
(***************************************************************************)
\* request.url
Url(r) == <<r.scheme, "://">> \o r.host \o r.path \o r.query
\* request.url_root
UrlRoot(r) == <<r.scheme, "://">> \o r.host \o <<"/">>

\* url_for('welcome'), url_for('index')
WelcomePath == <<"/", "welcome">>
IndexPath == <<"/">>
ContactPath(sfid) == <<"/", "contact", "/", sfid>>

\* @app.route: the view a path belongs to ("none": no rule matches)
Route(path) ==
    CASE path = WelcomePath -> "welcome"
      [] path = IndexPath -> "index"
      [] Len(path) = 4 /\ SubSeq(path, 1, 3) = <<"/", "contact", "/">> -> "contact"
      [] OTHER -> "none"

\* the methods a rule accepts
Methods(route) == IF route = "contact" THEN {"GET", "POST"} ELSE {"GET"}

\* the <string:sfid> part of /contact/<sfid>
PathSfid(path) == path[4]

\* force_https: the redirect it answers with, or no response
NoResp == [status |-> 0]
\* faulty variant: the scheme is not looked at
force_https_all(r) ==
    IF StartsWith(Url(r), <<"http", "://">>)
    THEN [status |-> 301,
          location |-> <<"https", "://">> \o r.host \o r.path
                       \o [i \in 1..Len(r.query) |->
                             IF r.query[i] = "http" THEN "https" ELSE r.query[i]]]
    ELSE NoResp
\* force_https, lines 190-191
force_https(r) ==
    IF StartsWith(Url(r), <<"http", "://">>)
    THEN [status |-> 301,
          location |-> ReplaceFirst(Url(r), <<"http", "://">>, <<"https", "://">>)]
    ELSE NoResp

\* tokens of [\w-]
WordTokens == {"a", "b", "w", "-", "herokuapp", "com", "example", "localhost"}
\* tokens that are one character long (what a regex '.' can consume)
CharTokens == {"a", "b", "w", "-", ".", ":", "/"}

\* search('^https?://([\w-]*).herokuapp.com.*', url_root): the lengths the
\* group ([\w-]*) can take in a match; empty when the search returns None
MatchLens(root) ==
    IF ~(Len(root) >= 2 /\ root[1] \in {"http", "https"} /\ root[2] = "://")
    THEN {}
    ELSE {k \in 0..(Len(root) - 2) :
            /\ \A i \in 3..(2 + k) : root[i] \in WordTokens
            /\ Len(root) >= k + 6
            /\ root[k + 3] \in CharTokens
            /\ root[k + 4] = "herokuapp"
            /\ root[k + 5] \in CharTokens
            /\ root[k + 6] = "com"}

NoMatch == [matched |-> FALSE]
\* the match object: group(1) is the longest group the backtracking finds
app_name_match(root) ==
    IF MatchLens(root) = {} THEN NoMatch
    ELSE [matched |-> TRUE, group1 |-> SubSeq(root, 3, 2 + SetMax(MatchLens(root)))]

\* the f-string of welcome()
heroku_resource_url(app_name) ==
    <<"https", "://", "dashboard.heroku.com", "/", "apps", "/">>
      \o app_name \o <<"/", "resources">>


(***************************************************************************)
(* ContactModel rows and ContactForm.                                      *)
(***************************************************************************)
\* the columns ContactForm holds, in the order the form declares them
FormFields == <<"firstname", "lastname", "title", "email", "phone">>
Mutable == {FormFields[i] : i \in 1..Len(FormFields)}

\* the anti-forgery token the session expects
SessionToken == <<"t">>

\* characters of the samples
Letters == {"a", "b", "c", "o", "n", "t", "A", "B", "C", "Z"}
Digits == {"5", "7"}

\* DataRequired: the data is set and is not only whitespace
DataRequired(data) == data # <<>> /\ Strip(data) # <<>>

\* one label of a host name: letters, digits and inner hyphens
LabelOk(l) ==
    /\ l # <<>>
    /\ \A i \in 1..Len(l) : l[i] \in Letters \cup Digits \cup {"-"}
    /\ l[1] # "-" /\ l[Len(l)] # "-"

\* Email: user@host, the user part dot-separated atoms, the host at least two
\* labels the last of which is a top-level domain of two letters or more
Email(data) ==
    LET ats == {i \in 1..Len(data) : data[i] = "@"}
    IN  /\ ats # {}
        /\ LET k == SetMax(ats)
               user == Split(SubSeq(data, 1, k - 1), ".")
               host == Split(SubSeq(data, k + 1, Len(data)), ".")
           IN  /\ \A i \in 1..Len(user) :
                     /\ user[i] # <<>>
                     /\ \A j \in 1..Len(user[i]) :
                           user[i][j] \in Letters \cup Digits \cup {"-", "+"}
               /\ Len(host) >= 2
               /\ \A i \in 1..Len(host) : LabelOk(host[i])
               /\ Len(host[Len(host)]) >= 2
               /\ \A j \in 1..Len(host[Len(host)]) : host[Len(host)][j] \in Letters

RequiredMsg == "This field is required."
EmailMsg == "Invalid email address."
CsrfMsg == "The CSRF token is missing."

\* field.errors after field.validate(): a failing DataRequired stops the chain
field_errors(form, name) ==
    CASE name \in {"firstname", "lastname", "phone"} ->
            IF DataRequired(form[name]) THEN <<>> ELSE <<RequiredMsg>>
      [] name = "title" -> <<>>
      [] name = "email" ->
            IF ~DataRequired(form.email) THEN <<RequiredMsg>>
            ELSE IF ~Email(form.email) THEN <<EmailMsg>>
            ELSE <<>>
      [] name = "csrf_token" ->
            IF form.csrf_token = SessionToken THEN <<>> ELSE <<CsrfMsg>>

\* the fields of the bound form: the declared ones, then the token
AllFields == FormFields \o <<"csrf_token">>

RECURSIVE Concat(_, _, _)
Concat(form, names, i) ==
    IF i > Len(names) THEN <<>>
    ELSE field_errors(form, names[i]) \o Concat(form, names, i + 1)

\* the messages of form.errors.values(), in field order, after validate()
\* faulty variant: validation stops at the first failing field
form_errors_first(form) ==
    LET all == Concat(form, AllFields, 1)
    IN  IF all = <<>> THEN <<>> ELSE <<all[1]>>
form_errors(form) == Concat(form, AllFields, 1)

\* form.populate_obj(contact): every declared field is set on the object
populate_obj(form, obj) ==
    [c \in DOMAIN obj |-> IF c \in Mutable THEN form[c] ELSE obj[c]]

\* db.session.commit(): the UPDATE names the columns whose value differs from
\* the one loaded, and addresses the row by primary key
\* faulty variant: the commit writes nothing
flush_nothing(tbl, loaded, obj) == tbl
\* faulty variant: the UPDATE has no WHERE clause
flush_all_rows(tbl, loaded, obj) ==
    [i \in DOMAIN tbl |-> [c \in DOMAIN tbl[i] |->
        IF c \in Mutable THEN obj[c] ELSE tbl[i][c]]]
\* db.session.commit(), lines 265-266
flush(tbl, loaded, obj) ==
    LET changed == {c \in DOMAIN tbl[loaded.id] : obj[c] # loaded[c]}
    IN  IF changed = {} THEN tbl
        ELSE [tbl EXCEPT ![loaded.id] =
                [c \in DOMAIN @ |-> IF c \in changed THEN obj[c] ELSE @[c]]]

\* ContactModel.query.filter_by(sfid=sfid).first()
NoContact == [id |-> 0]
\* faulty variant: the query is not filtered by sfid
first_unfiltered(tbl, sfid) ==
    [c \in {"id"} \cup DOMAIN tbl[SetMin(DOMAIN tbl)] |->
        IF c = "id" THEN SetMin(DOMAIN tbl) ELSE tbl[SetMin(DOMAIN tbl)][c]]
\* lines 243-245: the first row with that sfid, or None
first_by_sfid(tbl, sfid) ==
    LET hit == {i \in DOMAIN tbl : tbl[i].sfid = sfid}
    IN  IF hit = {} THEN NoContact
        ELSE [c \in {"id"} \cup DOMAIN tbl[SetMin(hit)] |->
                IF c = "id" THEN SetMin(hit) ELSE tbl[SetMin(hit)][c]]

\* form.process(obj=contact): the form shows the object's columns
process_obj(obj) == [c \in Mutable |-> obj[c]]
\* the submitted form as rendered back
form_data(form) == [c \in Mutable |-> form[c]]

\* flash(message, category)
Flash(category, message) == [category |-> category, message |-> message]
NotFoundMsg == "No contact with matching Salesforce ID exists."
SuccessMsg == "Contact successfully updated."
Danger(msgs) == [i \in 1..Len(msgs) |-> Flash("danger", msgs[i])]

(***************************************************************************)
(* Sample data: the rows the replication agent provisions, the versions it *)
(* later syncs in, and the requests clients send.                          *)
(***************************************************************************)
Row(sfid, fn, ln, ti, em, ph) ==
    [sfid |-> sfid, firstname |-> fn, lastname |-> ln, title |-> ti,
     email |-> em, phone |-> ph]

MailA == <<"a", "@", "b", ".", "c", "o">>
MailC == <<"c", "@", "b", ".", "c", "o">>

InitTable ==
    (1 :> Row("s1", <<"A">>, <<"B">>, <<"t">>, MailA, <<"5">>)) @@
    (2 :> Row("s2", <<"C">>, <<"C">>, <<>>, MailC, <<"7">>))

\* the versions of a row the external CRM may hold
CrmRows(i) ==
    IF i = 1
    THEN {InitTable[1], Row("s1", <<"Z">>, <<"B">>, <<"t">>, MailA, <<"7">>)}
    ELSE {InitTable[2], Row("s2", <<"C">>, <<"Z">>, <<>>, MailC, <<"7">>)}

Form(fn, ln, ti, em, ph, tok) ==
    [firstname |-> fn, lastname |-> ln, title |-> ti, email |-> em,
     phone |-> ph, csrf_token |-> tok]

EmptyForm == Form(<<>>, <<>>, <<>>, <<>>, <<>>, <<>>)
GoodForm == Form(<<"A">>, <<"C">>, <<>>, MailC, <<"5">>, SessionToken)
SameForm == Form(<<"A">>, <<"B">>, <<"t">>, MailA, <<"5">>, SessionToken)
BadMailForm == Form(<<"A">>, <<"C">>, <<>>, <<"n", "o", "t">>, <<"5">>, SessionToken)
NoNameForm == Form(<<>>, <<>>, <<"t">>, MailC, <<"5">>, SessionToken)
NoMailForm == Form(<<"A">>, <<"C">>, <<>>, <<>>, <<"5">>, SessionToken)
BlankForm == Form(<<"A">>, <<"C">>, <<>>, <<"a", "@", "b">>, <<" ">>, <<>>)

Forms == {GoodForm, SameForm, BadMailForm, NoNameForm, NoMailForm, BlankForm}

AppHost == <<"a", ".", "herokuapp", ".", "com">>
Hosts == {AppHost,
          <<"a", "-", "b", ".", "herokuapp", ".", "com">>,
          <<"a", "b", "herokuapp", ".", "com">>,
          <<"w", ".", "example", ".", "com">>,
          <<"localhost">>}

Request(method, scheme, host, path, query, form) ==
    [method |-> method, scheme |-> scheme, host |-> host, path |-> path,
     query |-> query, form |-> form]
NoReq == [method |-> "-"]

Get(path) == Request("GET", "https", AppHost, path, <<>>, EmptyForm)
Post(path, form) == Request("POST", "https", AppHost, path, <<>>, form)

\* requests of the edit-pipeline specification
EditRequests ==
    {Post(ContactPath("s1"), f) : f \in Forms}
      \cup {Post(ContactPath("sX"), GoodForm)}
      \cup {Get(ContactPath("s1")), Get(ContactPath("sX")),
            Get(IndexPath), Get(WelcomePath)}

\* requests of the readiness-gate specification
GateRequests ==
    {Get(WelcomePath), Get(IndexPath), Get(ContactPath("s1")),
     Post(ContactPath("s1"), GoodForm)}

\* requests of the URL specification
Queries == {<<>>, <<"?", "http", "://", "a">>}
UrlRequests ==
    {Request(m, s, h, p, q, IF m = "POST" THEN GoodForm ELSE EmptyForm) :
        m \in {"GET", "POST"}, s \in {"http", "https"}, h \in Hosts,
        p \in {WelcomePath, IndexPath, ContactPath("s1"), <<"/", "a">>},
        q \in Queries}

(***************************************************************************)
(* The request cycle of one worker thread.                                 *)
(***************************************************************************)
Redirect(path) == [status |-> 302, location |-> path]
NoneSent == [w |-> 0]

\* the response leaves; the thread takes no state into its next request.
\* sent holds it for the one step in which it leaves, with what
\* salesforce_connection_exists returned to the request ("none": not asked),
\* what the request had loaded and the table as it was before the step
Finish(w, r, gate, response, flashed) ==
    /\ sent' = [w |-> w, req |-> r, resp |-> response, flashes |-> flashed,
                gate |-> gate, contact |-> contact[w], before |-> table,
                nq |-> nq[w], ready0 |-> ready0[w]]
    /\ contact' = [contact EXCEPT ![w] = NoContact]
    /\ ready' = [ready EXCEPT ![w] = "none"]
    /\ pc' = [pc EXCEPT ![w] = "idle"]
    /\ req' = [req EXCEPT ![w] = NoReq]
    /\ nq' = [nq EXCEPT ![w] = 0]
    /\ ready0' = [ready0 EXCEPT ![w] = FALSE]

\* a request arrives: before_request (force_https), then the URL map
Receive(w, r) ==
    /\ pc[w] = "idle"
    /\ IF force_https(r) # NoResp THEN Finish(w, r, "none", force_https(r), <<>>)
       ELSE IF Route(r.path) = "none" THEN Finish(w, r, "none", [status |-> 404], <<>>)
       ELSE IF r.method \notin Methods(Route(r.path))
            THEN Finish(w, r, "none", [status |-> 405], <<>>)
       ELSE /\ pc' = [pc EXCEPT ![w] = "gate"]
            /\ req' = [req EXCEPT ![w] = r]
            /\ ready0' = [ready0 EXCEPT ![w] = schema]
            /\ sent' = NoneSent
            /\ UNCHANGED <<nq, contact, ready>>
    /\ UNCHANGED <<schema, inited, table, schema_exists, hits>>

\* salesforce_connection_exists, line 144: the cached flag is read
\* faulty variant: the cached flag is not consulted
ConnCheckFlag_nocache(w) ==
    /\ pc[w] = "gate"
    /\ pc' = [pc EXCEPT ![w] = "query"]
    /\ sent' = NoneSent
    /\ UNCHANGED <<schema, inited, table, req, schema_exists, contact, nq,
                   ready0, hits, ready>>
\* line 144
ConnCheckFlag(w) ==
    /\ pc[w] = "gate"
    /\ pc' = [pc EXCEPT ![w] = IF inited THEN "ret" ELSE "query"]
    /\ sent' = NoneSent
    /\ UNCHANGED <<schema, inited, table, req, schema_exists, contact, nq,
                   ready0, hits, ready>>

\* lines 145-157: the catalog is queried for the 'salesforce' schema
\* faulty variant: the count is taken as nonzero whatever the catalog holds
ConnQuery_anyrow(w) ==
    /\ pc[w] = "query"
    /\ schema_exists' = [schema_exists EXCEPT ![w] = TRUE]
    /\ nq' = [nq EXCEPT ![w] = @ + 1]
    /\ hits' = IF schema THEN hits + 1 ELSE hits
    /\ pc' = [pc EXCEPT ![w] = "set"]
    /\ sent' = NoneSent
    /\ UNCHANGED <<schema, inited, table, req, contact, ready0, ready>>
\* lines 145-157
ConnQuery(w) ==
    /\ pc[w] = "query"
    /\ schema_exists' = [schema_exists EXCEPT ![w] = schema]
    /\ nq' = [nq EXCEPT ![w] = @ + 1]
    /\ hits' = IF schema THEN hits + 1 ELSE hits
    /\ pc' = [pc EXCEPT ![w] = "set"]
    /\ sent' = NoneSent
    /\ UNCHANGED <<schema, inited, table, req, contact, ready0, ready>>

\* lines 159-160: the flag is set when the schema was found
\* faulty variant: the flag is set whatever the query found
ConnSetFlag_always(w) ==
    /\ pc[w] = "set"
    /\ inited' = TRUE
    /\ pc' = [pc EXCEPT ![w] = "ret"]
    /\ sent' = NoneSent
    /\ UNCHANGED <<schema, table, req, schema_exists, contact, nq, ready0,
                   hits, ready>>
\* lines 159-160
ConnSetFlag(w) ==
    /\ pc[w] = "set"
    /\ inited' = IF schema_exists[w] THEN TRUE ELSE inited
    /\ pc' = [pc EXCEPT ![w] = "ret"]
    /\ sent' = NoneSent
    /\ UNCHANGED <<schema, table, req, schema_exists, contact, nq, ready0,
                   hits, ready>>

\* line 162, the flag is read again and returned; the caller branches on it:
\* welcome() (line 202) or decorated_view (lines 178-181)
Returned == IF inited THEN "ready" ELSE "not ready"
Proceed(w) ==
    /\ pc' = [pc EXCEPT ![w] = "view"]
    /\ ready' = [ready EXCEPT ![w] = Returned]
    /\ sent' = NoneSent
    /\ UNCHANGED <<req, nq, ready0, contact>>
\* faulty variant: decorated_view calls the view without the check's result
ConnReturn_nogate(w) ==
    /\ pc[w] = "ret"
    /\ schema_exists' = [schema_exists EXCEPT ![w] = FALSE]
    /\ IF Route(req[w].path) = "welcome" /\ inited
       THEN Finish(w, req[w], Returned, Redirect(IndexPath), <<>>)
       ELSE Proceed(w)
    /\ UNCHANGED <<schema, inited, table, hits>>
\* lines 162, 178-181, 202-203
ConnReturn(w) ==
    /\ pc[w] = "ret"
    /\ schema_exists' = [schema_exists EXCEPT ![w] = FALSE]
    /\ IF Route(req[w].path) = "welcome"
       THEN IF inited THEN Finish(w, req[w], Returned, Redirect(IndexPath), <<>>)
            ELSE Proceed(w)
       ELSE IF inited THEN Proceed(w)
            ELSE Finish(w, req[w], Returned, Redirect(WelcomePath), <<>>)
    /\ UNCHANGED <<schema, inited, table, hits>>

\* welcome(), lines 205-219
Welcome(w) ==
    /\ pc[w] = "view" /\ Route(req[w].path) = "welcome"
    /\ LET m == app_name_match(UrlRoot(req[w]))
       IN  IF m.matched
           THEN Finish(w, req[w], ready[w],
                       [status |-> 200, page |-> "welcome.html",
                        heroku_resource_url |-> heroku_resource_url(m.group1)],
                       <<>>)
           ELSE Finish(w, req[w], ready[w], [status |-> 500], <<>>)
    /\ UNCHANGED <<schema, inited, table, schema_exists, hits>>

\* index(), lines 228-230
Index(w) ==
    /\ pc[w] = "view" /\ Route(req[w].path) = "index"
    /\ Finish(w, req[w], ready[w],
              [status |-> 200, page |-> "index.html", contacts |-> table], <<>>)
    /\ UNCHANGED <<schema, inited, table, schema_exists, hits>>

\* contact(), lines 243-257: the lookup, and the not-found answer
ContactLookup(w) ==
    /\ pc[w] = "view" /\ Route(req[w].path) = "contact"
    /\ LET c == first_by_sfid(table, PathSfid(req[w].path))
       IN  IF c = NoContact
           THEN Finish(w, req[w], ready[w], Redirect(IndexPath),
                       <<Flash("danger", NotFoundMsg)>>)
           ELSE /\ contact' = [contact EXCEPT ![w] = c]
                /\ pc' = [pc EXCEPT ![w] =
                            IF req[w].method = "POST" THEN "submit" ELSE "populate"]
                /\ sent' = NoneSent
                /\ UNCHANGED <<req, nq, ready0, ready>>
    /\ UNCHANGED <<schema, inited, table, schema_exists, hits>>

ContactPage(w, form) ==
    [status |-> 200, page |-> "contact.html",
     sfid |-> PathSfid(req[w].path), form |-> form]

\* contact(), lines 259-273 and 280: validate, then commit or flash the errors
ContactSubmit(w) ==
    /\ pc[w] = "submit"
    /\ LET form == req[w].form
           errors == form_errors(form)
       IN  /\ table' = IF errors = <<>>
                       THEN flush(table, contact[w], populate_obj(form, contact[w]))
                       ELSE table
           /\ Finish(w, req[w], ready[w], ContactPage(w, form_data(form)),
                     IF errors = <<>> THEN <<Flash("success", SuccessMsg)>>
                     ELSE Danger(errors))
    /\ UNCHANGED <<schema, inited, schema_exists, hits>>

\* contact(), lines 277 and 280: the form shows the record
ContactPopulate(w) ==
    /\ pc[w] = "populate"
    /\ Finish(w, req[w], ready[w], ContactPage(w, process_obj(contact[w])), <<>>)
    /\ UNCHANGED <<schema, inited, table, schema_exists, hits>>

(***************************************************************************)
(* The replication agent.                                                  *)
(***************************************************************************)
\* Heroku Connect provisions the 'salesforce' schema, once
Provision ==
    /\ ~schema
    /\ schema' = TRUE
    /\ sent' = NoneSent
    /\ UNCHANGED <<inited, table, pc, req, schema_exists, contact, nq, ready0,
                   hits, ready>>

\* Heroku Connect writes the CRM's version of a row
AgentSync ==
    /\ schema
    /\ \E i \in DOMAIN table : \E v \in CrmRows(i) :
          /\ table[i] # v
          /\ table' = [table EXCEPT ![i] = v]
    /\ sent' = NoneSent
    /\ UNCHANGED <<schema, inited, pc, req, schema_exists, contact, nq,
                   ready0, hits, ready>>

(***************************************************************************)
(* Specifications.                                                         *)
(***************************************************************************)
InitWith(W) ==
    /\ schema = FALSE
    /\ inited = FALSE
    /\ table = InitTable
    /\ pc = [w \in W |-> "idle"]
    /\ req = [w \in W |-> NoReq]
    /\ schema_exists = [w \in W |-> FALSE]
    /\ ready = [w \in W |-> "none"]
    /\ contact = [w \in W |-> NoContact]
    /\ sent = NoneSent
    /\ nq = [w \in W |-> 0]
    /\ ready0 = [w \in W |-> FALSE]
    /\ hits = 0

Workers == DOMAIN pc

\* the edit pipeline: every form, with the agent writing rows
Init == InitWith(1..EditWorkers)
Next ==
    \/ \E w \in Workers : \E r \in EditRequests : Receive(w, r)
    \/ \E w \in Workers : ConnCheckFlag(w)
    \/ \E w \in Workers : ConnQuery(w)
    \/ \E w \in Workers : ConnSetFlag(w)
    \/ \E w \in Workers : ConnReturn(w)
    \/ \E w \in Workers : Welcome(w)
    \/ \E w \in Workers : Index(w)
    \/ \E w \in Workers : ContactLookup(w)
    \/ \E w \in Workers : ContactSubmit(w)
    \/ \E w \in Workers : ContactPopulate(w)
    \/ Provision
    \/ AgentSync
Spec == Init /\ [][Next]_vars

\* the readiness gate: concurrent requests while the schema is provisioned
GateInit == InitWith(1..GateWorkers)
GateNext ==
    \/ \E w \in Workers : \E r \in GateRequests : Receive(w, r)
    \/ \E w \in Workers : ConnCheckFlag(w)
    \/ \E w \in Workers : ConnQuery(w)
    \/ \E w \in Workers : ConnSetFlag(w)
    \/ \E w \in Workers : ConnReturn(w)
    \/ \E w \in Workers : Welcome(w)
    \/ \E w \in Workers : Index(w)
    \/ \E w \in Workers : ContactLookup(w)
    \/ \E w \in Workers : ContactSubmit(w)
    \/ \E w \in Workers : ContactPopulate(w)
    \/ Provision
GateSpec == GateInit /\ [][GateNext]_vars

\* the race on the flag: requests to the listing only, more threads
RaceInit == InitWith(1..RaceWorkers)
RaceNext ==
    \/ \E w \in Workers : Receive(w, Get(IndexPath))
    \/ \E w \in Workers : ConnCheckFlag(w)
    \/ \E w \in Workers : ConnQuery(w)
    \/ \E w \in Workers : ConnSetFlag(w)
    \/ \E w \in Workers : ConnReturn(w)
    \/ \E w \in Workers : Index(w)
    \/ Provision
RaceSpec == RaceInit /\ [][RaceNext]_vars

\* the URL handling: every scheme, host, path and method
UrlInit == InitWith({1})
UrlNext ==
    \/ \E w \in Workers : \E r \in UrlRequests : Receive(w, r)
    \/ \E w \in Workers : ConnCheckFlag(w)
    \/ \E w \in Workers : ConnQuery(w)
    \/ \E w \in Workers : ConnSetFlag(w)
    \/ \E w \in Workers : ConnReturn(w)
    \/ \E w \in Workers : Welcome(w)
    \/ \E w \in Workers : Index(w)
    \/ \E w \in Workers : ContactLookup(w)
    \/ \E w \in Workers : ContactSubmit(w)
    \/ \E w \in Workers : ContactPopulate(w)
    \/ Provision
UrlSpec == UrlInit /\ [][UrlNext]_vars

(***************************************************************************)
(* Properties.  A response is judged in the state in which it is sent:     *)
(* sent.before is the table before that step, table the one after it.      *)
(***************************************************************************)
Answered == sent # NoneSent
SentRoute == Route(sent.req.path)

\* a POST /contact/{sfid} that found its record and ran the submit path
Submitted ==
    /\ Answered
    /\ SentRoute = "contact" /\ sent.req.method = "POST"
    /\ sent.contact # NoContact

\* only whitespace, the empty text included
Blank(data) == \A i \in 1..Len(data) : data[i] = " "

\* the fields of a submission that break a rule of the form
Failing(form) ==
    {f \in {"firstname", "lastname", "email", "phone"} : Blank(form[f])}
      \cup {f \in {"email"} : ~Email(form.email)}
      \cup {f \in {"csrf_token"} : form.csrf_token # SessionToken}

\* the failures the data model names: an empty required field, a bad address
NamedFailing(form) ==
    {f \in {"firstname", "lastname", "email", "phone"} : form[f] = <<>>}
      \cup {f \in {"email"} : ~Email(form.email)}

Texts(msgs) == {msgs[i].message : i \in 1..Len(msgs)}
Categories(msgs) == {msgs[i].category : i \in 1..Len(msgs)}

\* the row the request addressed, before and after the step that answers it
RowBefore == sent.before[sent.contact.id]
RowAfter == table[sent.contact.id]
Loaded(f) == sent.contact[f]

\* C1 (as amended): a submission with a failing field leaves the table as it
\* was, flashes no success notice and flashes one error message per failing
\* field, in field order; only an invalid address gives exactly the one
\* message "Invalid email address."
C1_AllOrNothing ==
    (Submitted /\ NamedFailing(sent.req.form) # {}) =>
        /\ table = sent.before
        /\ Categories(sent.flashes) = {"danger"}
        /\ Len(sent.flashes) = Cardinality(Failing(sent.req.form))
        /\ Len(sent.flashes) >= Cardinality(NamedFailing(sent.req.form))
        /\ (Failing(sent.req.form) = {"email"} /\ sent.req.form.email # <<>>)
              => sent.flashes = <<Flash("danger", EmailMsg)>>

\* C1 witness: empty first and last name were submitted and rejected
C1_Witness ==
    /\ Submitted
    /\ sent.req.form = NoNameForm
    /\ Len(sent.flashes) = 2

\* C1 as stated: as above, and an empty firstname with an empty lastname
\* yields at least two distinct error messages
C1_AsStated ==
    /\ C1_AllOrNothing
    /\ (Submitted /\ {"firstname", "lastname"} \subseteq NamedFailing(sent.req.form))
          => Cardinality(Texts(sent.flashes)) >= 2

\* C2 (as amended): a valid submission flashes exactly the success notice;
\* every field submitted with a value other than the one the request loaded
\* holds the submitted value, every other field is left as the table had it,
\* and when the row was not written since the lookup the row holds exactly
\* the submitted values
C2_Committed ==
    (Submitted /\ Failing(sent.req.form) = {}) =>
        /\ sent.flashes = <<Flash("success", SuccessMsg)>>
        /\ \A f \in Mutable :
              /\ sent.req.form[f] # Loaded(f) => RowAfter[f] = sent.req.form[f]
              /\ sent.req.form[f] = Loaded(f) => RowAfter[f] = RowBefore[f]
        /\ (\A f \in Mutable : RowBefore[f] = Loaded(f))
              => \A f \in Mutable : RowAfter[f] = sent.req.form[f]

\* C2 witness: a valid submission committed over a row that was written
\* between its lookup and its commit
C2_Witness ==
    /\ Submitted /\ Failing(sent.req.form) = {}
    /\ \E f \in Mutable : RowBefore[f] # Loaded(f)
    /\ table # sent.before

\* C2 as stated: after a valid submission the row holds exactly the
\* submitted values, whatever was written between lookup and commit
C2_AsStated ==
    (Submitted /\ Failing(sent.req.form) = {}) =>
        /\ sent.flashes = <<Flash("success", SuccessMsg)>>
        /\ \A f \in Mutable : RowAfter[f] = sent.req.form[f]

\* C3: a GET or POST /contact/{sfid} that passed the gate and matches no row
\* changes nothing, validates nothing, flashes exactly the not-found notice
\* as an error and redirects to "/"
C3_NotFound ==
    (/\ Answered /\ SentRoute = "contact" /\ sent.gate = "ready"
     /\ \A i \in DOMAIN sent.before :
           sent.before[i].sfid # PathSfid(sent.req.path)) =>
        /\ sent.resp = [status |-> 302, location |-> <<"/">>]
        /\ sent.flashes = <<[category |-> "danger", message |-> NotFoundMsg]>>
        /\ sent.contact = NoContact
        /\ table = sent.before

\* C3 witness: a POST for an unknown sfid was answered
C3_Witness ==
    /\ Answered /\ SentRoute = "contact" /\ sent.gate = "ready"
    /\ sent.req.method = "POST"
    /\ PathSfid(sent.req.path) = "sX"

\* what a step of the application may do to the table: no row added or
\* removed, no sfid written, and a row changes only in the submit step of a
\* request whose path names that row's sfid
AppKeeps ==
    /\ DOMAIN table' = DOMAIN table
    /\ \A i \in DOMAIN table :
          /\ DOMAIN table'[i] = DOMAIN table[i]
          /\ table'[i].sfid = table[i].sfid
          /\ table'[i] # table[i] =>
                \E w \in Workers :
                    /\ pc[w] = "submit" /\ pc'[w] = "idle"
                    /\ PathSfid(req[w].path) = table[i].sfid

\* C7: the application never creates or deletes a row and never writes id or
\* sfid; it changes only the five form columns of the row its path names
C7_Frame == [][Provision \/ AgentSync \/ AppKeeps]_vars

\* C7 witness: a request has changed a row
C7_Witness == Answered /\ table # sent.before

\* a request to a guarded route that got as far as the readiness check
Guarded ==
    /\ Answered
    /\ SentRoute \in {"index", "contact"}
    /\ sent.gate # "none"

\* C4: a guarded request for which salesforce_connection_exists returned
\* false is redirected to /welcome without its view running (nothing loaded,
\* flashed or written); one for which it returned true is not; and a request
\* that arrives once the schema exists gets true
C4_Gate ==
    Guarded =>
        /\ sent.gate = "not ready" =>
              /\ sent.resp = [status |-> 302, location |-> <<"/", "welcome">>]
              /\ sent.contact = NoContact
              /\ sent.flashes = <<>>
              /\ table = sent.before
        /\ sent.gate = "ready" => sent.resp # Redirect(WelcomePath)
        /\ sent.ready0 => sent.gate = "ready"

\* C4 witness: a POST /contact/{sfid} was turned away by the gate
C4_Witness ==
    /\ Guarded /\ sent.gate = "not ready"
    /\ sent.req.method = "POST"

\* some worker is about to return from a check that found the schema absent
AbsentReturn(w) == pc[w] = "ret" /\ nq[w] = 1 /\ ~schema_exists[w]

\* the latch: true only after a catalog check found the schema, set only by
\* such a check, never reset
Latch ==
    /\ inited => hits >= 1
    /\ inited => inited'
    /\ (~inited /\ inited') =>
          \E w \in Workers : pc[w] = "set" /\ schema_exists[w] /\ pc'[w] = "ret"
    /\ \A w \in Workers :
          (pc[w] = "set" /\ ~schema_exists[w] /\ pc'[w] = "ret") => inited' = inited

\* C5 (as amended): the flag is a one-way latch, and a check that found the
\* schema absent leaves the flag as it is and reports not ready unless
\* another request has set the flag in the meantime
C5_Latch ==
    [][/\ Latch
       /\ \A w \in Workers :
             (AbsentReturn(w) /\ ~inited /\ pc'[w] # "ret") =>
                 \/ sent' # NoneSent /\ sent'.w = w /\ sent'.gate = "not ready"
                 \/ pc'[w] = "view" /\ Route(req[w].path) = "welcome"]_vars

\* C5 witness: the flag is set while a check that found the schema absent
\* has yet to return
C5_Witness == inited /\ \E w \in Workers : AbsentReturn(w)

\* C5 as stated: the latch, and a check that finds the schema absent
\* returns false
C5_AsStated ==
    [][/\ Latch
       /\ \A w \in Workers : AbsentReturn(w) => ~inited]_vars

\* C6 (as amended): a request issues at most one catalog query, and a
\* request that reads the flag once it is set issues none
C6_Queries ==
    [][/\ \A w \in Workers : nq[w] <= 1 /\ nq'[w] <= 1
       /\ \A w \in Workers :
             (pc[w] = "gate" /\ inited) => (pc'[w] # "query" /\ nq'[w] = nq[w])]_vars

\* C6 witness: a second check has found the schema, and a later request
\* has read the set flag and skipped the query
C6_Witness ==
    /\ hits >= 2
    /\ \E w \in Workers : pc[w] = "ret" /\ nq[w] = 0 /\ inited

\* C6 as stated: at most one query per request, and no query is issued once
\* the flag is set, that is after the first check that returned true
C6_AsStated ==
    [][/\ \A w \in Workers : nq[w] <= 1
       /\ \A w \in Workers :
             (pc[w] = "query" /\ pc'[w] = "set") => ~inited]_vars

\* no record-bearing page is served while the schema is absent, and the
\* flag is never set without a check having found the schema
RaceSafe ==
    /\ (Answered /\ sent.resp.status = 200
          /\ sent.resp.page \in {"index.html", "contact.html"}) => schema
    /\ inited => (schema /\ hits >= 1)

\* C10 (as amended): the race costs at most one redundant catalog query per
\* other thread that had read the flag before it was set, never incorrect
\* behaviour
C10_Race ==
    /\ hits <= Cardinality(Workers)
    /\ RaceSafe

\* C10 witness: every thread's check found the schema
C10_Witness == hits = Cardinality(Workers) /\ hits >= 3

\* C10 as stated: at most one redundant catalog query beyond the first that
\* finds the schema
C10_AsStated ==
    /\ hits <= 2
    /\ RaceSafe

\* a GET /welcome that reached the view
WelcomeSent ==
    /\ Answered
    /\ SentRoute = "welcome" /\ sent.req.method = "GET"
    /\ sent.req.scheme = "https"

\* C8 as stated: /welcome redirects to "/" when ready and otherwise renders
\* the setup page with the dashboard link, for every host; never a failure
C8_Welcome ==
    WelcomeSent =>
        /\ sent.gate = "ready" => sent.resp = [status |-> 302, location |-> <<"/">>]
        /\ sent.gate = "not ready" =>
              /\ sent.resp.status = 200
              /\ sent.resp.page = "welcome.html"
              /\ LET url == sent.resp.heroku_resource_url
                     n == Len(url) - 8
                 IN  /\ n >= 0
                     /\ SubSeq(url, 1, 6) =
                          <<"https", "://", "dashboard.heroku.com", "/", "apps", "/">>
                     /\ SubSeq(url, 7, 6 + n) = SubSeq(sent.req.host, 1, n)
                     /\ SubSeq(url, 7 + n, 8 + n) = <<"/", "resources">>

\* the 301 the policy prescribes for a request
Upgraded(r) ==
    [status |-> 301, location |-> <<"https", "://">> \o r.host \o r.path \o r.query]

\* C9: every http request, whatever its path and method, is answered 301
\* with the same URL under https; an https request is not
C9_Https ==
    Answered =>
        /\ sent.req.scheme = "http" => sent.resp = Upgraded(sent.req)
        /\ sent.req.scheme = "https" => sent.resp.status # 301

\* C9 witness: an http POST to an unrouted path, with "http://" in its
\* query string, was answered
C9_Witness ==
    /\ Answered /\ sent.req.scheme = "http" /\ sent.req.method = "POST"
    /\ Route(sent.req.path) = "none"
    /\ sent.req.query # <<>>
=============================================================================
